---- MODULE Spec2Model ----
(***************************************************************************)
(* Ventilator console (gui.py): the limit-synchronisation chain between a  *)
(* Display_Value (spin boxes + RangeSlider), a Plot (two movable limit     *)
(* lines), the alarm evaluation, the Plot's bounded sample buffer with its *)
(* wrap-around rendering, the value label and its timer, the routing of    *)
(* values by name in Vent_Gui.update_value, and the mouse drags of the     *)
(* RangeSlider.                                                            *)
(*                                                                         *)
(* Qt delivers signals synchronously on the GUI thread, so one user edit   *)
(* runs a nested chain of slots.  The chain is modelled with an explicit   *)
(* stack of pending slot calls: the head is the call being run, the tail   *)
(* the work the callers still have to do when it returns.  User events and *)
(* new samples are only taken when the stack is empty (the event loop).    *)
(*                                                                         *)
(* Numbers are integers.  Limits are in the units of abs_range; times are  *)
(* whole seconds, except under SpecWrap, which counts them in ticks of     *)
(* 1/TicksPerSecond s.                                                     *)
(***************************************************************************)
EXTENDS Integers, Sequences, FiniteSets, TLC

VARIABLES
    value,            \* Display_Value.value (None until the first update_value)
    alarm,            \* RangeSlider._alarm, set by Display_Value.check_alarm
    alarmEmitted,     \* did the latest check_alarm call emit Display_Value.alarm
    violated,         \* was the stored value on or outside a limit at that call
    sliderLow,        \* RangeSlider._low
    sliderHigh,       \* RangeSlider._high
    spinMin,          \* Display_Value.min_safe.value()
    spinMax,          \* Display_Value.max_safe.value()
    pressed_control,  \* RangeSlider.pressed_control = SC_SliderHandle
    active_slider,    \* RangeSlider.active_slider: 0 low, 1 high, -1 both
    click_offset,     \* RangeSlider.click_offset
    lineMin,          \* Plot.min_safe.value()
    lineMax,          \* Plot.max_safe.value()
    stack,            \* pending slot calls of the running signal chain
    edit,             \* bookkeeping of the user event being processed
    timestamps,       \* Plot.timestamps (deque, maxlen = buffer_size)
    history,          \* Plot.history (deque, maxlen = buffer_size)
    plot_duration,    \* Plot.plot_duration
    start_time,       \* Plot._start_time
    now,              \* time.time()
    early_curve,      \* data of Plot.early_curve
    late_curve,       \* data of Plot.late_curve
    time_marker,      \* x position of Plot.time_marker
    maxlen,           \* maxlen of the two deques (Plot's buffer_size argument)
    frame,            \* outcome of the latest Plot.update_value call
    pushed,           \* every sample handed to Plot.update_value, in order
    x_range,          \* the x-axis extent given to Plot.setXRange
    label,            \* the number shown by Display_Value.value_label
    scheduled,        \* a QTimer.singleShot for timed_update is pending
    routed            \* the latest Vent_Gui.update_value call

dispVars == <<value, alarm, alarmEmitted, violated, sliderLow, sliderHigh, spinMin, spinMax>>
mouseVars == <<pressed_control, active_slider, click_offset>>
lineVars == <<lineMin, lineMax>>
bufVars == <<timestamps, history, plot_duration, start_time, now,
             early_curve, late_curve, time_marker, maxlen, frame, pushed, x_range>>
guiVars == <<label, scheduled>>
vars == <<dispVars, mouseVars, lineVars, stack, edit, bufVars, guiVars, routed>>

---------------------------------------------------------------------------
(* Static configuration: Vent_Gui.DISPLAY and Vent_Gui.PLOTS.              *)

Displays == {"oxygen", "temperature", "humidity", "vte", "etc"}
Plots == {"flow", "pressure"}

DISPLAY ==
    [d \in Displays |->
        CASE d = "oxygen"      -> [abs_range |-> <<0, 100>>, safe_range |-> <<60, 100>>,
                                  decimals |-> 1]
          [] d = "temperature" -> [abs_range |-> <<0, 50>>, safe_range |-> <<20, 30>>,
                                  decimals |-> 1]
          [] d = "humidity"    -> [abs_range |-> <<0, 100>>, safe_range |-> <<20, 75>>,
                                  decimals |-> 1]
          [] d = "vte"         -> [abs_range |-> <<0, 100>>, safe_range |-> <<20, 80>>,
                                  decimals |-> 1]
          [] d = "etc"         -> [abs_range |-> <<0, 100>>, safe_range |-> <<10, 90>>,
                                  decimals |-> 1]]

PLOTS ==
    [p \in Plots |-> [abs_range |-> <<0, 100>>, safe_range |-> <<20, 80>>]]

\* Vent_Gui.init_ui: display_values['vte'].limits_changed -> plots['pressure'].set_safe_limits
DisplayLimitsChangedSlots_of_every_display(d) == <<"pressure">>
DisplayLimitsChangedSlots(d) == IF d = "vte" THEN <<"pressure">> ELSE <<>>

\* Vent_Gui.init_ui: plots['pressure'].limits_changed -> display_values['vte'].update_limits
PlotLimitsChangedSlots(p) == IF p = "pressure" THEN <<"vte">> ELSE <<>>

\* Display_Value.__init__: self.value = None
None == -1000

\* Display_Value.init_ui: value_label = QLabel() shows no text
NoText == -1001

\* no Vent_Gui.update_value call has been made
NoCall == [value_name |-> "none", new_value |-> None]

---------------------------------------------------------------------------
(* Inputs the model draws from.                                            *)

\* positions a spin box edit or a slider drag can produce (inside abs_range)
LimitGrid == {0, 20, 80, 100}
\* positions a plot limit line can be dragged to (InfiniteLine has no bounds)
LineGrid == LimitGrid \cup {-20, 120}
\* values an update_value call can carry
ValueGrid == {0, 20, 60}
\* the display and the plot whose limits the user edits
EditedDisplays == {"vte"}
EditedPlots == {"pressure"}

\* Plot.__init__: plot_duration = 5
default_plot_duration == 5
\* the buffer_size the plots are built with (4092 in the code)
buffer_size == 3
\* Plot.update_value calls per plot
MaxPushes == 4
\* the clock stops at MaxTime
MaxTime == 6
\* a sample's timestamp relative to the clock: late, on time, early
StampOffsets == {-2, 0, 1}
\* the k-th sample handed to a plot carries the value SampleValue(k)
SampleValue(k) == 10 + k
\* durations set_duration is called with
Durations == {2, 3, 5}
\* the plot that receives samples
SampledPlots == {"pressure"}

\* cap of the per-edit counters and of the depth of the slot stack
CountCap == 60

---------------------------------------------------------------------------
(* Helpers translated from the code and from the toolkit calls it makes.   *)

Min(a, b) == IF a < b THEN a ELSE b
Max(a, b) == IF a > b THEN a ELSE b

\* QSpinBox.setValue bounds the value to the range given by setRange
Bound(v, lo, hi) == Max(lo, Min(hi, v))

\* QSpinBox.setValue and InfiniteLine.setPos emit their change signal only
\* when the stored value changes
EmitsAlways(old, new) == TRUE
Changed(old, new) == old # new

\* Python truth value of self.value: None and 0 are false
Truthy(v) == v # None /\ v # 0

\* the comparison of Display_Value.check_alarm
OutOfBand(v, min_safe, max_safe) == (v >= max_safe) \/ (v <= min_safe)

\* Display_Value.check_alarm: the alarm flag after the call (left as it was
\* when self.value is false)
check_alarm(v, min_safe, max_safe, old_alarm) ==
    IF Truthy(v) THEN OutOfBand(v, min_safe, max_safe) ELSE old_alarm

\* a check_alarm that emits self.alarm whenever it has a value to look at
check_alarm_emits_on_every_call(v, min_safe, max_safe) == Truthy(v)

\* Display_Value.check_alarm: does the call emit self.alarm
check_alarm_emits(v, min_safe, max_safe) ==
    Truthy(v) /\ OutOfBand(v, min_safe, max_safe)

\* Display_Value.check_alarm: the signals the call emits; the branch that
\* clears the flag only restyles the label
check_alarm_signals(v, min_safe, max_safe) ==
    IF check_alarm_emits(v, min_safe, max_safe) THEN {"alarm"} ELSE {}

RECURSIVE Pow10(_)
Pow10(n) == IF n <= 0 THEN 1 ELSE 10 * Pow10(n - 1)

\* np.round(v, decimals) of a whole number v: v itself for decimals >= 0,
\* else the nearest multiple of 10^-decimals, a tie going to the even one
np_round(v, decimals) ==
    IF decimals >= 0 THEN v
    ELSE LET m == Pow10(0 - decimals)
             q == v \div m
             r == v % m
         IN  IF 2 * r < m THEN q * m
             ELSE IF 2 * r > m THEN (q + 1) * m
             ELSE IF q % 2 = 0 THEN q * m ELSE (q + 1) * m

Frame(op, ch, a, b) == [op |-> op, ch |-> ch, a |-> a, b |-> b]

Quiescent == stack = <<>>

Inc(n) == Min(n + 1, CountCap)

\* a slot call is being run: count it
Called == [edit EXCEPT !.calls = Inc(@)]

\* what is recorded about the event being processed: the surface the user
\* acted on (origin, ch, op), whether the event changed that surface's own
\* value, whether it asked for low > high, the slot calls run so far, the
\* update_limits / set_safe_limits calls received with their latest argument,
\* the emissions of Display_Value.limits_changed and Plot.limits_changed, the
\* (low, high) a mouse move left the slider with, the displays whose value
\* was inside its band when the event began (normal_before), and those for
\* which a check_alarm call of the event emitted alarm or set the flag
NoEdit == [origin |-> "none", ch |-> "none", op |-> "init",
           changed |-> FALSE, inverted |-> FALSE, calls |-> 0,
           update_limits |-> 0, set_safe_limits |-> 0,
           got_display |-> <<0, 0>>, got_plot |-> <<0, 0>>,
           display_limits_changed |-> 0, plot_limits_changed |-> 0,
           dragged_to |-> <<0, 0>>, normal_before |-> {}, alarmed |-> {}]

\* display d has a value and it is strictly inside (min_safe, max_safe)
Normal(d) == value[d] # None /\ ~OutOfBand(value[d], spinMin[d], spinMax[d])

NewEdit(origin, ch, op, changed, inverted) ==
    [NoEdit EXCEPT !.origin = origin, !.ch = ch, !.op = op,
                   !.changed = changed, !.inverted = inverted,
                   !.normal_before = {d \in Displays : Normal(d)}]

---------------------------------------------------------------------------
(* Initial state: Vent_Gui.__init__ -> init_ui, before the first event.    *)

InitDisplays ==
    /\ value = [d \in Displays |-> None]
    /\ alarm = [d \in Displays |-> FALSE]
    /\ alarmEmitted = [d \in Displays |-> FALSE]
    /\ violated = [d \in Displays |-> FALSE]
    /\ sliderLow = [d \in Displays |-> DISPLAY[d].safe_range[1]]
    /\ sliderHigh = [d \in Displays |-> DISPLAY[d].safe_range[2]]
    /\ spinMin = [d \in Displays |-> DISPLAY[d].safe_range[1]]
    /\ spinMax = [d \in Displays |-> DISPLAY[d].safe_range[2]]
    /\ pressed_control = [d \in Displays |-> FALSE]
    /\ active_slider = [d \in Displays |-> 0]
    /\ click_offset = [d \in Displays |-> 0]
    /\ stack = <<>>
    /\ edit = NoEdit

InitLines ==
    /\ lineMin = [p \in Plots |-> PLOTS[p].safe_range[1]]
    /\ lineMax = [p \in Plots |-> PLOTS[p].safe_range[2]]

\* no Plot.update_value call yet.  A frame records the latest call: whether
\* it raised, its plot_timestamps, the clock it read (this_time), the
\* plot_duration it used, and whether no call so far was given a timestamp
\* later than the clock (on_time)
NoFrame == [called |-> FALSE, raised |-> FALSE, plot_timestamps |-> <<>>,
            this_time |-> 0, duration |-> 0, on_time |-> TRUE]

\* Plot.__init__(buffer_size = size, plot_duration = duration) at time 0
InitBuffers(size, duration) ==
    /\ timestamps = [p \in Plots |-> <<>>]
    /\ history = [p \in Plots |-> <<>>]
    /\ maxlen = [p \in Plots |-> size]
    /\ plot_duration = [p \in Plots |-> duration]
    /\ start_time = [p \in Plots |-> 0]
    /\ now = 0
    /\ early_curve = [p \in Plots |-> <<>>]
    /\ late_curve = [p \in Plots |-> <<>>]
    /\ time_marker = [p \in Plots |-> 0]
    /\ frame = [p \in Plots |-> NoFrame]
    /\ pushed = [p \in Plots |-> <<>>]
    /\ x_range = [p \in Plots |-> <<0, duration>>]

\* Display_Value.__init__: an empty value_label and the first timed_update
\* call, which leaves a timer pending; no Vent_Gui.update_value call yet
InitGui ==
    /\ label = [d \in Displays |-> NoText]
    /\ scheduled = [d \in Displays |-> TRUE]
    /\ routed = NoCall

Init ==
    /\ InitDisplays
    /\ InitLines
    /\ InitBuffers(buffer_size, default_plot_duration)
    /\ InitGui

---------------------------------------------------------------------------
(* Events taken by the event loop (only when no slot is running).          *)

\* the user types v into the Min spin box: QSpinBox sets its value
EditMinSpin(d, v) ==
    /\ Quiescent
    /\ stack' = <<Frame("min_safe.setValue", d, v, 0)>>
    /\ edit' = NewEdit("display", d, "min_safe", v # spinMin[d], v > spinMax[d])
    /\ UNCHANGED <<dispVars, mouseVars, lineVars, bufVars, guiVars, routed>>

\* the user types v into the Max spin box
EditMaxSpin(d, v) ==
    /\ Quiescent
    /\ stack' = <<Frame("max_safe.setValue", d, v, 0)>>
    /\ edit' = NewEdit("display", d, "max_safe", v # spinMax[d], v < spinMin[d])
    /\ UNCHANGED <<dispVars, mouseVars, lineVars, bufVars, guiVars, routed>>

\* QStyle places a handle at its value bounded to [minimum, maximum]
HandlePos(d, v) == Bound(v, DISPLAY[d].abs_range[1], DISPLAY[d].abs_range[2])

\* RangeSlider.mousePressEvent at slider position pos: a hit on a handle
\* selects it (the low handle is tested first), any other click grabs both
mousePressEvent(d, pos) ==
    /\ Quiescent
    /\ pressed_control' = [pressed_control EXCEPT ![d] = TRUE]
    /\ IF pos = HandlePos(d, sliderLow[d])
       THEN /\ active_slider' = [active_slider EXCEPT ![d] = 0]
            /\ UNCHANGED click_offset
       ELSE IF pos = HandlePos(d, sliderHigh[d])
       THEN /\ active_slider' = [active_slider EXCEPT ![d] = 1]
            /\ UNCHANGED click_offset
       ELSE /\ active_slider' = [active_slider EXCEPT ![d] = -1]
            /\ click_offset' = [click_offset EXCEPT ![d] = pos]
    /\ edit' = NewEdit("none", d, "mousePress", FALSE, FALSE)
    /\ UNCHANGED <<dispVars, lineVars, stack, bufVars, guiVars, routed>>

\* a move that puts the dragged handle wherever the mouse is
MovedRange_unguarded(d, new_pos) ==
    LET lo == sliderLow[d]
        hi == sliderHigh[d]
    IN  IF active_slider[d] < 0
        THEN <<lo + new_pos - click_offset[d], hi + new_pos - click_offset[d]>>
        ELSE IF active_slider[d] = 0 THEN <<new_pos, hi>> ELSE <<lo, new_pos>>

\* RangeSlider.mouseMoveEvent: the (low, high) after a move to new_pos
MovedRange(d, new_pos) ==
    LET lo == sliderLow[d]
        hi == sliderHigh[d]
        minimum == DISPLAY[d].abs_range[1]
        maximum == DISPLAY[d].abs_range[2]
    IN  IF active_slider[d] < 0
        THEN LET offset == new_pos - click_offset[d]
                 lo1 == lo + offset
                 hi1 == hi + offset
                 diff1 == IF lo1 < minimum THEN minimum - lo1 ELSE 0
                 lo2 == lo1 + diff1
                 hi2 == hi1 + diff1
                 diff2 == IF hi2 > maximum THEN maximum - hi2 ELSE 0
             IN  <<lo2 + diff2, hi2 + diff2>>
        ELSE IF active_slider[d] = 0
        THEN <<IF new_pos >= hi THEN lo ELSE new_pos, hi>>
        ELSE <<lo, IF new_pos <= lo THEN hi ELSE new_pos>>

\* RangeSlider.mouseMoveEvent: click_offset takes new_pos after the handle
\* branches replaced it
MovedOffset(d, new_pos) ==
    IF active_slider[d] < 0 THEN new_pos
    ELSE IF active_slider[d] = 0
    THEN (IF new_pos >= sliderHigh[d] THEN sliderLow[d] ELSE new_pos)
    ELSE (IF new_pos <= sliderLow[d] THEN sliderHigh[d] ELSE new_pos)

\* RangeSlider.mouseMoveEvent; valueChanged runs update_boxes, then
\* _limits_changed
mouseMoveEvent(d, new_pos) ==
    /\ Quiescent
    /\ pressed_control[d]
    /\ LET r == MovedRange(d, new_pos) IN
        /\ sliderLow' = [sliderLow EXCEPT ![d] = r[1]]
        /\ sliderHigh' = [sliderHigh EXCEPT ![d] = r[2]]
        /\ click_offset' = [click_offset EXCEPT ![d] = MovedOffset(d, new_pos)]
        /\ stack' = IF r[1] # sliderLow[d] \/ r[2] # sliderHigh[d]
                    THEN <<Frame("update_boxes", d, r[1], r[2]),
                           Frame("_limits_changed", d, 0, 0)>>
                    ELSE <<>>
    /\ edit' = [NewEdit("display", d, "slider",
                         MovedRange(d, new_pos) # <<sliderLow[d], sliderHigh[d]>>,
                         \/ active_slider[d] = 0 /\ new_pos > sliderHigh[d]
                         \/ active_slider[d] = 1 /\ new_pos < sliderLow[d])
                    EXCEPT !.dragged_to = MovedRange(d, new_pos)]
    /\ UNCHANGED <<value, alarm, alarmEmitted, violated, spinMin, spinMax,
                   pressed_control, active_slider, lineVars, bufVars, guiVars, routed>>

\* the user drags the plot's lower limit line to v: InfiniteLine.setPos
DragMinLine(p, v) ==
    /\ Quiescent
    /\ stack' = <<Frame("min_line.setPos", p, v, 0)>>
    /\ edit' = NewEdit("plot", p, "min_line", v # lineMin[p], v > lineMax[p])
    /\ UNCHANGED <<dispVars, mouseVars, lineVars, bufVars, guiVars, routed>>

\* the user drags the plot's upper limit line to v
DragMaxLine(p, v) ==
    /\ Quiescent
    /\ stack' = <<Frame("max_line.setPos", p, v, 0)>>
    /\ edit' = NewEdit("plot", p, "max_line", v # lineMax[p], v < lineMin[p])
    /\ UNCHANGED <<dispVars, mouseVars, lineVars, bufVars, guiVars, routed>>

\* Display_Value.update_value(new_value)
Display_update_value(d, v) ==
    /\ Quiescent
    /\ value' = [value EXCEPT ![d] = v]
    /\ alarm' = [alarm EXCEPT ![d] = check_alarm(v, spinMin[d], spinMax[d], @)]
    /\ alarmEmitted' = [alarmEmitted EXCEPT
                            ![d] = check_alarm_emits(v, spinMin[d], spinMax[d])]
    /\ violated' = [violated EXCEPT ![d] = OutOfBand(v, spinMin[d], spinMax[d])]
    /\ edit' = NewEdit("none", d, "update_value", FALSE, FALSE)
    /\ UNCHANGED <<sliderLow, sliderHigh, spinMin, spinMax, mouseVars,
                   lineVars, stack, bufVars, guiVars>>

\* Display_Value.timed_update, run when its single-shot timer fires: the
\* label takes the rounded value if self.value is true, and the timer is set
\* again
timed_update(d) ==
    /\ Quiescent
    /\ scheduled[d]
    /\ label' = [label EXCEPT ![d] = IF Truthy(value[d])
                                     THEN np_round(value[d], DISPLAY[d].decimals)
                                     ELSE @]
    /\ scheduled' = [scheduled EXCEPT ![d] = TRUE]
    /\ edit' = NewEdit("none", d, "timed_update", FALSE, FALSE)
    /\ UNCHANGED <<dispVars, mouseVars, lineVars, stack, bufVars, routed>>

---------------------------------------------------------------------------
(* Slots run by the signal chain: each takes the head of the stack.        *)

Running(op) == stack # <<>> /\ Head(stack).op = op /\ Len(stack) < CountCap

\* QSpinBox.setValue on min_safe; valueChanged runs range_slider.setLow,
\* then _limits_changed
Display_min_safe_setValue ==
    /\ Running("min_safe.setValue")
    /\ LET d == Head(stack).ch
           v == Bound(Head(stack).a, DISPLAY[d].abs_range[1], DISPLAY[d].abs_range[2])
       IN  IF Changed(spinMin[d], v)
           THEN /\ spinMin' = [spinMin EXCEPT ![d] = v]
                /\ sliderLow' = [sliderLow EXCEPT ![d] = v]
                /\ stack' = <<Frame("_limits_changed", d, v, 0)>> \o Tail(stack)
           ELSE /\ stack' = Tail(stack)
                /\ UNCHANGED <<spinMin, sliderLow>>
    /\ edit' = Called
    /\ UNCHANGED <<value, alarm, alarmEmitted, violated, sliderHigh, spinMax,
                   mouseVars, lineVars, bufVars, guiVars, routed>>

\* QSpinBox.setValue on max_safe; valueChanged runs range_slider.setHigh,
\* then _limits_changed
Display_max_safe_setValue ==
    /\ Running("max_safe.setValue")
    /\ LET d == Head(stack).ch
           v == Bound(Head(stack).a, DISPLAY[d].abs_range[1], DISPLAY[d].abs_range[2])
       IN  IF Changed(spinMax[d], v)
           THEN /\ spinMax' = [spinMax EXCEPT ![d] = v]
                /\ sliderHigh' = [sliderHigh EXCEPT ![d] = v]
                /\ stack' = <<Frame("_limits_changed", d, v, 0)>> \o Tail(stack)
           ELSE /\ stack' = Tail(stack)
                /\ UNCHANGED <<spinMax, sliderHigh>>
    /\ edit' = Called
    /\ UNCHANGED <<value, alarm, alarmEmitted, violated, sliderLow, spinMin,
                   mouseVars, lineVars, bufVars, guiVars, routed>>

\* Display_Value.update_boxes
Display_update_boxes ==
    /\ Running("update_boxes")
    /\ LET f == Head(stack) IN
        stack' = <<Frame("min_safe.setValue", f.ch, f.a, 0),
                   Frame("max_safe.setValue", f.ch, f.b, 0)>> \o Tail(stack)
    /\ edit' = Called
    /\ UNCHANGED <<dispVars, mouseVars, lineVars, bufVars, guiVars, routed>>

\* Display_Value._limits_changed: check_alarm, then limits_changed.emit
Display__limits_changed ==
    /\ Running("_limits_changed")
    /\ LET d == Head(stack).ch
           slots == DisplayLimitsChangedSlots(d)
       IN  /\ alarm' = [alarm EXCEPT
                           ![d] = check_alarm(value[d], spinMin[d], spinMax[d], @)]
           /\ alarmEmitted' = [alarmEmitted EXCEPT
                           ![d] = check_alarm_emits(value[d], spinMin[d], spinMax[d])]
           /\ violated' = [violated EXCEPT
                           ![d] = value[d] # None
                                  /\ OutOfBand(value[d], spinMin[d], spinMax[d])]
           /\ stack' = [i \in 1..Len(slots) |->
                           Frame("set_safe_limits", slots[i], spinMin[d], spinMax[d])]
                       \o Tail(stack)
    /\ edit' = [Called EXCEPT
                    !.display_limits_changed = Inc(@),
                    !.alarmed = IF alarm'[Head(stack).ch] \/ alarmEmitted'[Head(stack).ch]
                                THEN @ \cup {Head(stack).ch} ELSE @]
    /\ UNCHANGED <<value, sliderLow, sliderHigh, spinMin, spinMax,
                   mouseVars, lineVars, bufVars, guiVars, routed>>

\* Display_Value.update_limits
Display_update_limits ==
    /\ Running("update_limits")
    /\ LET f == Head(stack) IN
        /\ sliderLow' = [sliderLow EXCEPT ![f.ch] = f.a]
        /\ sliderHigh' = [sliderHigh EXCEPT ![f.ch] = f.b]
        /\ stack' = <<Frame("update_boxes", f.ch, f.a, f.b)>> \o Tail(stack)
        /\ edit' = [Called EXCEPT !.update_limits = Inc(@), !.got_display = <<f.a, f.b>>]
    /\ UNCHANGED <<value, alarm, alarmEmitted, violated, spinMin, spinMax,
                   mouseVars, lineVars, bufVars, guiVars, routed>>

\* Plot.set_safe_limits: max_safe.setPos, then min_safe.setPos
Plot_set_safe_limits ==
    /\ Running("set_safe_limits")
    /\ LET f == Head(stack) IN
        /\ stack' = <<Frame("max_line.setPos", f.ch, f.b, 0),
                      Frame("min_line.setPos", f.ch, f.a, 0)>> \o Tail(stack)
        /\ edit' = [Called EXCEPT !.set_safe_limits = Inc(@), !.got_plot = <<f.a, f.b>>]
    /\ UNCHANGED <<dispVars, mouseVars, lineVars, bufVars, guiVars, routed>>

\* InfiniteLine.setPos on Plot.min_safe; sigPositionChanged runs
\* Plot._safe_limits_changed
Plot_min_safe_setPos ==
    /\ Running("min_line.setPos")
    /\ LET p == Head(stack).ch
           v == Head(stack).a
       IN  IF Changed(lineMin[p], v)
           THEN /\ lineMin' = [lineMin EXCEPT ![p] = v]
                /\ stack' = <<Frame("_safe_limits_changed", p, 0, 0)>> \o Tail(stack)
           ELSE /\ stack' = Tail(stack)
                /\ UNCHANGED lineMin
    /\ edit' = Called
    /\ UNCHANGED <<dispVars, mouseVars, lineMax, bufVars, guiVars, routed>>

\* InfiniteLine.setPos on Plot.max_safe
Plot_max_safe_setPos ==
    /\ Running("max_line.setPos")
    /\ LET p == Head(stack).ch
           v == Head(stack).a
       IN  IF Changed(lineMax[p], v)
           THEN /\ lineMax' = [lineMax EXCEPT ![p] = v]
                /\ stack' = <<Frame("_safe_limits_changed", p, 0, 0)>> \o Tail(stack)
           ELSE /\ stack' = Tail(stack)
                /\ UNCHANGED lineMax
    /\ edit' = Called
    /\ UNCHANGED <<dispVars, mouseVars, lineMin, bufVars, guiVars, routed>>

\* Plot._safe_limits_changed: limits_changed.emit of the lines' positions
Plot__safe_limits_changed ==
    /\ Running("_safe_limits_changed")
    /\ LET p == Head(stack).ch
           slots == PlotLimitsChangedSlots(p)
       IN  stack' = [i \in 1..Len(slots) |->
                        Frame("update_limits", slots[i], lineMin[p], lineMax[p])]
                    \o Tail(stack)
    /\ edit' = [Called EXCEPT !.plot_limits_changed = Inc(@)]
    /\ UNCHANGED <<dispVars, mouseVars, lineVars, bufVars, guiVars, routed>>

\* one step of the running signal chain
Slot ==
    \/ Display_min_safe_setValue
    \/ Display_max_safe_setValue
    \/ Display_update_boxes
    \/ Display__limits_changed
    \/ Display_update_limits
    \/ Plot_set_safe_limits
    \/ Plot_min_safe_setPos
    \/ Plot_max_safe_setPos
    \/ Plot__safe_limits_changed

---------------------------------------------------------------------------
(* The Plot's sample buffer and its wrap-around rendering.                 *)

\* deque(maxlen = n).append(x): the oldest entry is dropped when full
deque_append_keeps_oldest(q, x, n) == IF Len(q) >= n THEN q ELSE Append(q, x)
deque_append(q, x, n) == IF Len(q) >= n THEN Append(Tail(q), x) ELSE Append(q, x)

SetMin(S) == CHOOSE x \in S : \A y \in S : x <= y

\* every stored sample, whatever its age
where_everything(ts_array, this_time, duration) == 1..Len(ts_array)

\* np.where(ts_array > (this_time - self.plot_duration))[0]
where_in_window(ts_array, this_time, duration) ==
    {i \in 1..Len(ts_array) : ts_array[i] > this_time - duration}

\* np.mod(ts_array[start_ind:end_ind] - self._start_time, self.plot_duration)
wrapped(ts_array, start_ind, t0, duration) ==
    [i \in 1..(Len(ts_array) - start_ind + 1) |->
        (ts_array[start_ind + i - 1] - t0) % duration]

\* np.where(np.diff(plot_timestamps) < 0)[0]
where_diff_negative(w) == {i \in 1..(Len(w) - 1) : w[i + 1] - w[i] < 0}

\* the number of points given to early_curve: reset_ind + 1 points, or all
\* of them when [0][0] raises IndexError
early_count_without_plus_one(w) ==
    IF where_diff_negative(w) = {} THEN Len(w)
    ELSE SetMin(where_diff_negative(w)) - 1
early_count(w) ==
    IF where_diff_negative(w) = {} THEN Len(w)
    ELSE SetMin(where_diff_negative(w))

\* current_relative_time = (this_time - self._start_time) % self.plot_duration
current_relative_time_of_default_duration(this_time, t0, duration) ==
    (this_time - t0) % default_plot_duration
current_relative_time(this_time, t0, duration) == (this_time - t0) % duration

\* the (x, y) points of a curve
Points(xs, ys, from, to) == [i \in 1..(to - from + 1) |-> <<xs[from + i - 1], ys[from + i - 1]>>]

\* an update_value that appends the value only once the window is known to
\* hold a sample
Plot_update_value_appending_after_filter(p, ts, v) ==
    /\ Quiescent
    /\ LET ts_array == deque_append(timestamps[p], ts, maxlen[p])
           hist == deque_append(history[p], v, maxlen[p])
           inside == where_in_window(ts_array, now, plot_duration[p])
       IN  /\ time_marker' = [time_marker EXCEPT ![p] =
                  current_relative_time(now, start_time[p], plot_duration[p])]
           /\ timestamps' = [timestamps EXCEPT ![p] = ts_array]
           /\ history' = [history EXCEPT ![p] = IF inside = {} THEN @ ELSE hist]
           /\ pushed' = [pushed EXCEPT ![p] = Append(@, <<ts, v>>)]
           /\ IF inside = {}
              THEN \* [0][0] on an empty array: IndexError leaves update_value
                   /\ frame' = [frame EXCEPT ![p] =
                         [called |-> TRUE, raised |-> TRUE, plot_timestamps |-> <<>>,
                          this_time |-> now, duration |-> plot_duration[p],
                          on_time |-> frame[p].on_time /\ ts <= now]]
                   /\ UNCHANGED <<early_curve, late_curve>>
              ELSE LET start_ind == SetMin(inside)
                       w == wrapped(ts_array, start_ind, start_time[p], plot_duration[p])
                       ys == [i \in 1..Len(w) |-> hist[start_ind + i - 1]]
                       k == early_count(w)
                   IN  /\ early_curve' = [early_curve EXCEPT ![p] = Points(w, ys, 1, k)]
                       /\ late_curve' = [late_curve EXCEPT ![p] = Points(w, ys, k + 1, Len(w))]
                       /\ frame' = [frame EXCEPT ![p] =
                             [called |-> TRUE, raised |-> FALSE, plot_timestamps |-> w,
                              this_time |-> now, duration |-> plot_duration[p],
                              on_time |-> frame[p].on_time /\ ts <= now]]
    /\ UNCHANGED <<dispVars, mouseVars, lineVars, stack, edit,
                   plot_duration, start_time, now, maxlen, x_range, guiVars>>

\* Plot.update_value((ts, v)) at clock time `now`
Plot_update_value(p, ts, v) ==
    /\ Quiescent
    /\ LET ts_array == deque_append(timestamps[p], ts, maxlen[p])
           hist == deque_append(history[p], v, maxlen[p])
           inside == where_in_window(ts_array, now, plot_duration[p])
       IN  /\ time_marker' = [time_marker EXCEPT ![p] =
                  current_relative_time(now, start_time[p], plot_duration[p])]
           /\ timestamps' = [timestamps EXCEPT ![p] = ts_array]
           /\ history' = [history EXCEPT ![p] = hist]
           /\ pushed' = [pushed EXCEPT ![p] = Append(@, <<ts, v>>)]
           /\ IF inside = {}
              THEN \* [0][0] on an empty array: IndexError leaves update_value
                   /\ frame' = [frame EXCEPT ![p] =
                         [called |-> TRUE, raised |-> TRUE, plot_timestamps |-> <<>>,
                          this_time |-> now, duration |-> plot_duration[p],
                          on_time |-> frame[p].on_time /\ ts <= now]]
                   /\ UNCHANGED <<early_curve, late_curve>>
              ELSE LET start_ind == SetMin(inside)
                       w == wrapped(ts_array, start_ind, start_time[p], plot_duration[p])
                       ys == [i \in 1..Len(w) |-> hist[start_ind + i - 1]]
                       k == early_count(w)
                   IN  /\ early_curve' = [early_curve EXCEPT ![p] = Points(w, ys, 1, k)]
                       /\ late_curve' = [late_curve EXCEPT ![p] = Points(w, ys, k + 1, Len(w))]
                       /\ frame' = [frame EXCEPT ![p] =
                             [called |-> TRUE, raised |-> FALSE, plot_timestamps |-> w,
                              this_time |-> now, duration |-> plot_duration[p],
                              on_time |-> frame[p].on_time /\ ts <= now]]
    /\ UNCHANGED <<dispVars, mouseVars, lineVars, stack, edit,
                   plot_duration, start_time, now, maxlen, x_range, guiVars>>

\* Plot.set_duration(dur)
Plot_set_duration_dropping_history(p, dur) ==
    /\ Quiescent
    /\ plot_duration' = [plot_duration EXCEPT ![p] = dur]
    /\ x_range' = [x_range EXCEPT ![p] = <<0, dur>>]
    /\ timestamps' = [timestamps EXCEPT ![p] = <<>>]
    /\ history' = [history EXCEPT ![p] = <<>>]
    /\ UNCHANGED <<dispVars, mouseVars, lineVars, stack, edit,
                   start_time, now, early_curve, late_curve, time_marker,
                   maxlen, frame, pushed, guiVars, routed>>
Plot_set_duration(p, dur) ==
    /\ Quiescent
    /\ plot_duration' = [plot_duration EXCEPT ![p] = dur]
    /\ x_range' = [x_range EXCEPT ![p] = <<0, dur>>]
    /\ UNCHANGED <<dispVars, mouseVars, lineVars, stack, edit, timestamps, history,
                   start_time, now, early_curve, late_curve, time_marker,
                   maxlen, frame, pushed, guiVars, routed>>

\* Vent_Gui.set_plot_duration: set_duration(dur) on every plot
set_plot_duration(dur) ==
    /\ Quiescent
    /\ plot_duration' = [p \in Plots |-> dur]
    /\ x_range' = [p \in Plots |-> <<0, dur>>]
    /\ UNCHANGED <<dispVars, mouseVars, lineVars, stack, edit, timestamps, history,
                   start_time, now, early_curve, late_curve, time_marker,
                   maxlen, frame, pushed, guiVars, routed>>

\* time.time() advances
Tick(step, limit) ==
    /\ Quiescent
    /\ now + step <= limit
    /\ now' = now + step
    /\ UNCHANGED <<dispVars, mouseVars, lineVars, stack, edit, timestamps, history,
                   plot_duration, start_time, early_curve, late_curve, time_marker,
                   maxlen, frame, pushed, x_range, guiVars, routed>>

\* Vent_Gui.update_value(value_name, new_value): new_value is a number for
\* a display and a (timestamp, value) pair for a plot
Vent_Gui_update_value_by_kind(value_name, new_value) ==
    /\ routed' = [value_name |-> value_name, new_value |-> new_value]
    /\ IF new_value \in Int
       THEN \E d \in Displays : Display_update_value(d, new_value)
       ELSE \E p \in Plots : Plot_update_value(p, new_value[1], new_value[2])
Vent_Gui_update_value(value_name, new_value) ==
    /\ routed' = [value_name |-> value_name, new_value |-> new_value]
    /\ IF value_name \in Displays
       THEN Display_update_value(value_name, new_value)
       ELSE IF value_name \in Plots
       THEN Plot_update_value(value_name, new_value[1], new_value[2])
       ELSE /\ Quiescent
            /\ UNCHANGED <<dispVars, mouseVars, lineVars, stack, edit, bufVars,
                           guiVars>>

\* a caller hands the plot its next sample, stamped ts >= 0
PushSample(p, ts, limit) ==
    /\ ts >= 0
    /\ Len(pushed[p]) < limit
    /\ Vent_Gui_update_value(p, <<ts, SampleValue(Len(pushed[p]))>>)

\* the clock, the samples and the duration changes of the sampled plot
NextPlot ==
    \/ Tick(1, MaxTime)
    \/ \E p \in SampledPlots, o \in StampOffsets : PushSample(p, now + o, MaxPushes)
    \/ \E p \in SampledPlots, dur \in Durations : Plot_set_duration(p, dur)

SpecPlot == Init /\ [][NextPlot]_vars

\* the events of one display and the plot it is connected to
LimitEvent ==
    \/ \E d \in EditedDisplays, v \in LimitGrid : EditMinSpin(d, v)
    \/ \E d \in EditedDisplays, v \in LimitGrid : EditMaxSpin(d, v)
    \/ \E d \in EditedDisplays, pos \in LimitGrid : mousePressEvent(d, pos)
    \/ \E d \in EditedDisplays, pos \in LimitGrid : mouseMoveEvent(d, pos)
    \/ \E p \in EditedPlots, v \in LineGrid : DragMinLine(p, v)
    \/ \E p \in EditedPlots, v \in LineGrid : DragMaxLine(p, v)
    \/ \E d \in EditedDisplays, v \in ValueGrid : Vent_Gui_update_value(d, v)

Next == LimitEvent \/ Slot

Spec == Init /\ [][Next]_vars

---------------------------------------------------------------------------
(* Limit edits on every channel: the spin boxes of all displays and the    *)
(* limit lines of both plots.                                              *)

\* the value typed into a spin box or given to a limit line
IsolationGrid == {40}

NextIsolation ==
    \/ \E d \in Displays, v \in IsolationGrid : EditMinSpin(d, v)
    \/ \E d \in Displays, v \in IsolationGrid : EditMaxSpin(d, v)
    \/ \E p \in Plots, v \in IsolationGrid : DragMinLine(p, v)
    \/ \E p \in Plots, v \in IsolationGrid : DragMaxLine(p, v)
    \/ Slot

SpecIsolation == Init /\ [][NextIsolation]_vars

---------------------------------------------------------------------------
(* Mouse drags on the range sliders alone: presses and moves on a display  *)
(* that is connected to a plot and on one that is not.                     *)

\* the displays whose slider is dragged
DraggedDisplays == {"vte", "oxygen"}
\* the slider positions the mouse is pressed at and moved to
SliderGrid == {0, 40, 60, 100}

NextSlider ==
    \/ \E d \in DraggedDisplays, pos \in SliderGrid : mousePressEvent(d, pos)
    \/ \E d \in DraggedDisplays, pos \in SliderGrid : mouseMoveEvent(d, pos)
    \/ Slot

SpecSlider == Init /\ [][NextSlider]_vars

---------------------------------------------------------------------------
(* The console as its host drives it: values and samples arrive by name    *)
(* through Vent_Gui.update_value, the label timers fire, the plot history   *)
(* buttons are clicked.                                                    *)

\* the display that is sent values; the other four are never addressed
GuiDisplays == {"vte"}
\* names that are neither a display nor a plot
UnknownNames == {"spo2"}
\* the values they are sent
GuiValues == {0, 60}
\* the duration of the plot history button that is clicked
GuiDurations == {2}
\* Plot.update_value calls per plot
GuiPushes == 1
\* the clock stops at GuiTime
GuiTime == 1

NextGui ==
    \/ \E d \in GuiDisplays, v \in GuiValues : Vent_Gui_update_value(d, v)
    \/ \E n \in UnknownNames, v \in GuiValues : Vent_Gui_update_value(n, v)
    \/ \E p \in Plots : PushSample(p, now, GuiPushes)
    \/ \E d \in GuiDisplays : timed_update(d)
    \/ \E dur \in GuiDurations : set_plot_duration(dur)
    \/ Tick(1, GuiTime)

SpecGui == Init /\ [][NextGui]_vars

---------------------------------------------------------------------------
(* The sweep of the design's example: a plot of duration 1 s fed samples   *)
(* at 0.1, 0.3, 0.6, 0.9, 1.05 and 1.2 s, in ticks of 1/TicksPerSecond s.  *)

TicksPerSecond == 20
\* 0.1, 0.3, 0.6, 0.9, 1.05, 1.2 s in twentieths of a second
ExampleStamps == <<2, 6, 12, 18, 21, 24>>
\* the clock is read every WrapTick ticks
WrapTick == 10

InitWrap ==
    /\ InitDisplays
    /\ InitLines
    /\ InitBuffers(Len(ExampleStamps), TicksPerSecond)
    /\ InitGui

NextWrap ==
    \/ Tick(WrapTick, TicksPerSecond)
    \/ \E p \in SampledPlots, i \in 1..Len(ExampleStamps) :
          PushSample(p, ExampleStamps[i], Len(ExampleStamps))

SpecWrap == InitWrap /\ [][NextWrap]_vars

---------------------------------------------------------------------------
(* Properties.                                                             *)

\* C1: once every slot has returned, a display's alarm flag is set exactly
\* when its stored value v has v >= max_safe or v <= min_safe for the limits
\* now in the spin boxes, for every stored v of the absolute range.
C1_AlarmFollowsValueAndLimits ==
    \A d \in Displays :
        (Quiescent /\ value[d] # None) =>
            (alarm[d] <=> OutOfBand(value[d], spinMin[d], spinMax[d]))

\* C2: the evaluation run by update_value(v) leaves the alarm flag set when v
\* is on or outside a bound and cleared when v is strictly between the
\* bounds, for every v.
C2_UpdateValueEvaluatesBand ==
    \A d \in Displays :
        (edit.op = "update_value" /\ edit.ch = d) =>
            /\ (value[d] <= spinMin[d] \/ value[d] >= spinMax[d]) => alarm[d]
            /\ (spinMin[d] < value[d] /\ value[d] < spinMax[d]) => ~alarm[d]

\* C3: a Plot.update_value call that finds no buffered timestamp greater than
\* now - plot_duration does not raise and leaves both curves empty.
C3_EmptyWindowIsNoOpFrame ==
    \A p \in Plots :
        (frame[p].called /\ frame[p].plot_timestamps = <<>>) =>
            /\ ~frame[p].raised
            /\ early_curve[p] = <<>>
            /\ late_curve[p] = <<>>

\* C4: after a user edit that changed a limit of the linked 'vte' display or
\* 'pressure' plot, the surface the user acted on got no notification of the
\* edit and the other one got exactly one, carrying the final (low, high).
C4_BroadcastExcludesOrigin ==
    (Quiescent /\ edit.changed) =>
        /\ (edit.origin = "display" /\ edit.ch = "vte") =>
              /\ edit.update_limits = 0
              /\ edit.set_safe_limits = 1
              /\ edit.got_plot = <<spinMin["vte"], spinMax["vte"]>>
        /\ (edit.origin = "plot" /\ edit.ch = "pressure") =>
              /\ edit.set_safe_limits = 0
              /\ edit.update_limits = 1
              /\ edit.got_display = <<lineMin["pressure"], lineMax["pressure"]>>

\* C5: when no slot is running, the slider, the spin boxes and (for 'vte' and
\* 'pressure') the plot's limit lines all hold the same (low, high).
C5_RepresentationsAgree ==
    Quiescent =>
        /\ \A d \in Displays :
              sliderLow[d] = spinMin[d] /\ sliderHigh[d] = spinMax[d]
        /\ \A d \in Displays :
              \A i \in 1..Len(DisplayLimitsChangedSlots(d)) :
                 LET p == DisplayLimitsChangedSlots(d)[i]
                 IN  lineMin[p] = spinMin[d] /\ lineMax[p] = spinMax[d]

\* C6: a user edit runs only finitely many slot calls: the number of calls of
\* one edit and the depth of the nested calls stay below CountCap, and a
\* running chain can always take its next step until it is quiescent.
C6_ChainTerminates ==
    /\ edit.calls < CountCap
    /\ Len(stack) < CountCap
    /\ Quiescent \/ ENABLED Slot

\* C6 witness: an edit on the display went round the whole chain (the plot
\* was told, the plot told the display back) and the chain has returned.
C6_Witness ==
    /\ Quiescent
    /\ edit.origin = "display"
    /\ edit.changed
    /\ edit.set_safe_limits >= 1
    /\ edit.update_limits >= 1

\* C7: in every state the limits a display evaluates the alarm against
\* satisfy abs_min <= safe_low <= safe_high <= abs_max.
C7_SafeRangeOrderedInsideAbsRange ==
    \A d \in Displays :
        /\ DISPLAY[d].abs_range[1] <= spinMin[d]
        /\ spinMin[d] <= spinMax[d]
        /\ spinMax[d] <= DISPLAY[d].abs_range[2]

\* C8: an edit that asks for low > high (a spin box typed across the other
\* bound, a handle dragged past the other handle, a limit line dragged across
\* the other line) leaves the stored range with low = high.
C8_InvertedWriteIsClamped ==
    (Quiescent /\ edit.inverted) =>
        LET d == IF edit.origin = "plot" THEN PlotLimitsChangedSlots(edit.ch)[1]
                 ELSE edit.ch
        IN  spinMin[d] = spinMax[d] /\ sliderLow[d] = sliderHigh[d]

\* C9: after N calls of Plot.update_value on a plot of capacity C the two
\* deques hold min(N, C) entries, which are the latest min(N, C) samples in
\* the order they came; over capacity the oldest kept is sample N - C.
C9_RingBuffer ==
    \A p \in Plots :
        LET N == Len(pushed[p])
            k == Min(N, maxlen[p])
        IN  /\ Len(timestamps[p]) = k
            /\ Len(history[p]) = k
            /\ \A i \in 1..k :
                  <<timestamps[p][i], history[p][i]>> = pushed[p][N - k + i]

\* C9 witness: more samples than the capacity were pushed, the last of them
\* in a call that raised.
C9_Witness ==
    \E p \in Plots : Len(pushed[p]) > maxlen[p] /\ frame[p].raised

\* the x values of a curve
Xs(curve) == [i \in 1..Len(curve) |-> curve[i][1]]

\* [0.1, 0.3, 0.6, 0.9, 0.05, 0.2] s in twentieths of a second
ExampleWrapped == <<2, 6, 12, 18, 1, 4>>

\* C10: a drawn frame splits the wrapped times at their first descent: the
\* early curve runs up to and including the sample before it, the late curve
\* holds the rest; with no descent the early curve holds everything.  The
\* wrapped times 0.1, 0.3, 0.6, 0.9, 0.05, 0.2 give 4 and 2 points.
C10_SplitAtFirstDescent ==
    \A p \in Plots :
        (frame[p].called /\ ~frame[p].raised) =>
            LET w == frame[p].plot_timestamps
                E == Xs(early_curve[p])
                L == Xs(late_curve[p])
            IN  /\ E \o L = w
                /\ E # <<>>
                /\ \A i \in 1..(Len(E) - 1) : E[i + 1] >= E[i]
                /\ L # <<>> => L[1] < E[Len(E)]
                /\ (\A i \in 1..(Len(w) - 1) : w[i + 1] >= w[i]) => L = <<>>
                /\ w = ExampleWrapped => Len(E) = 4 /\ Len(L) = 2

\* C10 witness: the example's frame was drawn.
C10_Witness ==
    \E p \in Plots :
        /\ frame[p].called
        /\ frame[p].plot_timestamps = ExampleWrapped
        /\ Len(early_curve[p]) = 4
        /\ Len(late_curve[p]) = 2

\* the timestamps of a log of (timestamp, value) samples
Ts(log) == [i \in 1..Len(log) |-> log[i][1]]

NonDecreasing(xs) == \A i \in 1..(Len(xs) - 1) : xs[i + 1] >= xs[i]

\* C11: for a plot whose pushed timestamps are non-decreasing and were never
\* later than the clock, the wrapped times of the latest frame descend at no
\* more than one index and the x values of each curve are non-decreasing,
\* whatever plot_duration the frame was drawn with.
C11_AtMostOneDescent ==
    \A p \in Plots :
        (frame[p].on_time /\ NonDecreasing(Ts(pushed[p]))) =>
            /\ Cardinality(where_diff_negative(frame[p].plot_timestamps)) <= 1
            /\ NonDecreasing(Xs(early_curve[p]))
            /\ NonDecreasing(Xs(late_curve[p]))

\* C11 witness: after set_duration changed the duration, a frame of three
\* in-order samples was drawn across the wrap.
C11_Witness ==
    \E p \in Plots :
        /\ frame[p].on_time
        /\ NonDecreasing(Ts(pushed[p]))
        /\ ~frame[p].raised
        /\ frame[p].duration # default_plot_duration
        /\ Len(frame[p].plot_timestamps) = 3
        /\ Cardinality(where_diff_negative(frame[p].plot_timestamps)) = 1

\* C12: applying a notification emits nothing back.  An event that starts
\* at a plot line enters the display only through update_limits and an event
\* that starts at a display enters the plot only through set_safe_limits, so
\* the first sees no Display_Value.limits_changed emission and the second no
\* Plot.limits_changed emission.
C12_ApplyDoesNotRebroadcast ==
    /\ edit.origin = "plot" => edit.display_limits_changed = 0
    /\ edit.origin = "display" => edit.plot_limits_changed = 0

\* C13: a check_alarm call that finds the stored value on or outside a limit,
\* when the call before found it inside (or there was no value yet), emits
\* the alarm signal.
C13_RaisedAlarmIsSignalled ==
    [][\A d \in Displays : (~violated[d] /\ violated'[d]) => alarmEmitted'[d]]_vars

\* C14: a check_alarm call that finds the stored value inside the limits,
\* when the call before found it on or outside one, emits a signal telling
\* that the alarm is over.
C14_ClearedAlarmIsSignalled ==
    [][\A d \in Displays :
          (violated[d] /\ ~violated'[d]) =>
              check_alarm_signals(value'[d], spinMin'[d], spinMax'[d]) # {}]_vars

\* C15: no step changes a plot's _start_time, and a step that changes a
\* plot's plot_duration sets the x-axis extent to (0, plot_duration) and
\* changes nothing else: not the buffered timestamps and values, not the
\* limit lines, not the curves, not any display.
C15_SetDurationFrame ==
    [][\A p \in Plots :
          /\ start_time'[p] = start_time[p]
          /\ plot_duration'[p] # plot_duration[p] =>
                /\ x_range'[p] = <<0, plot_duration'[p]>>
                /\ UNCHANGED <<timestamps, history, lineVars, early_curve,
                               late_curve, time_marker, maxlen, frame, pushed,
                               now, dispVars, mouseVars, stack, edit, guiVars,
                               routed>>]_vars

\* C15 witness: set_duration changed the duration of a plot that holds
\* samples, after the latest frame was drawn.
C15_Witness ==
    \E p \in Plots :
        /\ frame[p].called
        /\ plot_duration[p] # frame[p].duration
        /\ x_range[p] = <<0, plot_duration[p]>>
        /\ Len(timestamps[p]) >= 2
        /\ Len(history[p]) = Len(timestamps[p])
        /\ start_time[p] = 0

\* C16: the time marker stands where the latest update_value call put it,
\* at (this_time - _start_time) mod the plot_duration of that call, which is
\* at least 0 and less than that plot_duration; also when the call raised.
C16_MarkerInsideSweep ==
    \A p \in Plots :
        frame[p].called =>
            /\ time_marker[p] =
                  (frame[p].this_time - start_time[p]) % frame[p].duration
            /\ 0 <= time_marker[p]
            /\ time_marker[p] < frame[p].duration

\* C16 witness: a call made after set_duration had shortened the sweep put
\* the marker past the start of the new sweep, at a time past one sweep.
C16_Witness ==
    \E p \in Plots :
        /\ frame[p].called
        /\ frame[p].duration < default_plot_duration
        /\ frame[p].this_time > frame[p].duration
        /\ time_marker[p] > 0

\* C17: a timed_update call leaves its timer pending and, once a value has
\* been stored, leaves the label showing the rounded stored value, whatever
\* value of the absolute range that is; an update_value call leaves every
\* label as it was.
C17_LabelShowsStoredValue ==
    [][/\ \A d \in Displays : scheduled'[d]
       /\ (edit'.op = "timed_update" /\ value'[edit'.ch] # None) =>
             label'[edit'.ch] = np_round(value'[edit'.ch], DISPLAY[edit'.ch].decimals)
       /\ edit'.op = "update_value" => label' = label]_vars

\* what a display channel and a plot channel hold
DisplayChannel(d) ==
    <<value[d], alarm[d], alarmEmitted[d], violated[d], sliderLow[d],
      sliderHigh[d], spinMin[d], spinMax[d], label[d]>>
PlotChannel(p) ==
    <<timestamps[p], history[p], pushed[p], early_curve[p], late_curve[p],
      time_marker[p], frame[p], lineMin[p], lineMax[p], plot_duration[p],
      x_range[p]>>

\* the sample pairs a plot can be sent
GuiSamples == (0..(GuiTime + 1)) \X {SampleValue(k) : k \in 0..GuiPushes}

\* C18: a step that is the call Vent_Gui.update_value(name, v) stores v in the
\* display called name and changes no other display and no plot; if no
\* display has the name it appends v to the plot called name and changes no
\* display and no other plot; if neither has the name it changes nothing.
\* (The call records its arguments in routed; naming them first picks the one
\* call a step can be.)
C18_DeliveredToOneChannel ==
    [][\A name \in Displays \cup Plots \cup UnknownNames :
          \A v \in (IF name \in Plots THEN GuiSamples ELSE GuiValues) :
             (/\ routed' = [value_name |-> name, new_value |-> v]
              /\ Vent_Gui_update_value(name, v)) =>
                /\ name \in Displays => value'[name] = v
                /\ name \in Plots => pushed'[name] = Append(pushed[name], v)
                /\ \A d \in Displays \ {name} :
                      DisplayChannel(d)' = DisplayChannel(d)
                /\ \A p \in Plots \ {name} : PlotChannel(p)' = PlotChannel(p)
                /\ name \in UnknownNames =>
                      UNCHANGED <<dispVars, mouseVars, lineVars, stack, bufVars,
                                  guiVars>>]_vars

\* C18 witness: after a value went to 'vte' and a sample to 'flow', a call
\* with a name that no channel has left both, and the channels never
\* addressed, as they were.
C18_Witness ==
    /\ routed.value_name \in UnknownNames
    /\ value["vte"] = 60
    /\ value["oxygen"] = None
    /\ Len(pushed["flow"]) = 1
    /\ pushed["pressure"] = <<>>

\* the buffered samples of the latest frame's window, oldest first, as the
\* points (wrapped time, value) the curves draw them at
WindowPoints(p) ==
    LET inside(i) == timestamps[p][i] > frame[p].this_time - frame[p].duration
        point(i) == <<(timestamps[p][i] - start_time[p]) % frame[p].duration,
                      history[p][i]>>
        kept == SelectSeq([i \in 1..Len(timestamps[p]) |-> i], inside)
    IN  [j \in 1..Len(kept) |-> point(kept[j])]

\* C19: after every update_value call on a plot whose buffered timestamps
\* are non-decreasing, the early curve followed by the late curve holds
\* exactly the buffered samples with timestamp > this_time - plot_duration,
\* each once and oldest first.
C19_CurvesHoldTheWindow ==
    \A p \in Plots :
        (frame[p].called /\ NonDecreasing(timestamps[p])) =>
            early_curve[p] \o late_curve[p] = WindowPoints(p)

\* the limits a display holds and the limit lines of a plot
DisplayLimits(d) == <<sliderLow[d], sliderHigh[d], spinMin[d], spinMax[d]>>
PlotLimits(p) == <<lineMin[p], lineMax[p]>>

\* C20: a step changes the limits of a display only in an event the user
\* started on that display, or, for 'vte', on the 'pressure' plot; it changes
\* the limit lines of a plot only in an event started on that plot, or, for
\* 'pressure', on the 'vte' display; and these two do propagate: for the
\* in-range values edited here they hold the same limits whenever no slot is
\* running.
C20_LimitsIsolated ==
    [][/\ \A d \in Displays :
             DisplayLimits(d)' # DisplayLimits(d) =>
                 \/ edit'.ch = d
                 \/ d = "vte" /\ edit'.ch = "pressure"
       /\ \A p \in Plots :
             PlotLimits(p)' # PlotLimits(p) =>
                 \/ edit'.ch = p
                 \/ p = "pressure" /\ edit'.ch = "vte"
       /\ stack' = <<>> =>
             PlotLimits("pressure")' = <<spinMin'["vte"], spinMax'["vte"]>>]_vars

\* C20 witness: the limits of 'vte' went to 'pressure', a 'flow' line and
\* then a spin box of 'oxygen' were changed, and 'etc', 'humidity' and
\* 'temperature' still hold the limits they were built with.
C20_Witness ==
    /\ Quiescent
    /\ edit.origin = "display" /\ edit.ch = "oxygen"
    /\ edit.changed
    /\ DisplayLimits("oxygen") = <<40, 100, 40, 100>>
    /\ spinMin["vte"] = 40 /\ lineMin["pressure"] = 40
    /\ lineMax["flow"] = 40 /\ lineMin["flow"] = 20
    /\ \A d \in {"etc", "humidity", "temperature"} :
          <<spinMin[d], spinMax[d]>> = DISPLAY[d].safe_range

\* the slider of display d has minimum <= low < high <= maximum
SliderOrdered(d) ==
    /\ DISPLAY[d].abs_range[1] <= sliderLow[d]
    /\ sliderLow[d] < sliderHigh[d]
    /\ sliderHigh[d] <= DISPLAY[d].abs_range[2]

\* what RangeSlider.mouseMoveEvent may do to (low, high) on a move to new_pos:
\* a single handle dragged onto or past the other keeps its value, and the
\* other handle is not touched; a drag of both keeps high - low
DragRule(d, new_pos) ==
    /\ (active_slider[d] = 0 /\ new_pos >= sliderHigh[d]) =>
            sliderLow'[d] = sliderLow[d]
    /\ (active_slider[d] = 1 /\ new_pos <= sliderLow[d]) =>
            sliderHigh'[d] = sliderHigh[d]
    /\ active_slider[d] = 0 => sliderHigh'[d] = sliderHigh[d]
    /\ active_slider[d] = 1 => sliderLow'[d] = sliderLow[d]
    /\ active_slider[d] < 0 =>
            sliderHigh'[d] - sliderLow'[d] = sliderHigh[d] - sliderLow[d]

\* C21: under mouse drags alone, every mouse move obeys the drag rule, and
\* once the slots it started have run the slider still holds the (low, high)
\* the move gave it, with minimum <= low < high <= maximum
C21_DragsKeepSliderOrdered ==
    /\ [](Quiescent =>
            /\ \A d \in DraggedDisplays : SliderOrdered(d)
            /\ edit.op = "slider" =>
                    <<sliderLow[edit.ch], sliderHigh[edit.ch]>> = edit.dragged_to)
    /\ [][\A d \in DraggedDisplays, new_pos \in SliderGrid :
            mouseMoveEvent(d, new_pos) => DragRule(d, new_pos)]_vars

\* the latest move dragged a handle of 'vte' past the other one, and the
\* slider of 'oxygen' has been dragged down by both handles
C21_Witness ==
    /\ Quiescent
    /\ edit.op = "slider" /\ edit.ch = "vte" /\ edit.inverted
    /\ active_slider["oxygen"] = -1
    /\ sliderLow["oxygen"] < DISPLAY["oxygen"].safe_range[1]

\* C22: when a limit edit has run to its end, a display whose value was
\* inside its band before the edit and is inside its band after it has had
\* no check_alarm call, during the edit, that emitted alarm or set the flag
C22_NoTransientAlarm ==
    (Quiescent /\ edit.origin # "none") =>
        \A d \in edit.normal_before : Normal(d) => d \notin edit.alarmed

\* a drag of the slider has moved both bounds of 'vte', check_alarm has run
\* between the two writes, and the value was and is inside the band
C22_Witness ==
    /\ Quiescent
    /\ edit.op = "slider" /\ edit.ch = "vte"
    /\ "vte" \in edit.normal_before /\ Normal("vte")
    /\ edit.changed /\ edit.display_limits_changed >= 2
    /\ active_slider["vte"] = -1

\* the step is an alarm evaluation of display d: an update_value call or a
\* _limits_changed call
AlarmEvaluation(d) ==
    \/ \E v \in ValueGrid : Vent_Gui_update_value(d, v)
    \/ Display__limits_changed /\ Head(stack).ch = d

\* C23: every alarm evaluation that finds a display out of band that was
\* out of band already emits the alarm signal again
C23_AlarmRepeatsWhileViolated ==
    [][\A d \in EditedDisplays :
        (violated[d] /\ AlarmEvaluation(d) /\ violated'[d]) => alarmEmitted'[d]]_vars

\* C24: the two deques of a plot have the same length, and entry i of
\* timestamps and entry i of history are the timestamp and the value of one
\* and the same update_value call
C24_DequesAligned ==
    \A p \in Plots :
        /\ Len(timestamps[p]) = Len(history[p])
        /\ \A i \in 1..Len(history[p]) :
              \E n \in 1..Len(pushed[p]) :
                  pushed[p][n] = <<timestamps[p][i], history[p][i]>>

\* samples have been evicted at capacity, the latest call failed while
\* rendering, and the timestamps kept are not in order
C24_Witness ==
    \E p \in Plots :
        /\ Len(pushed[p]) > maxlen[p] /\ Len(history[p]) = maxlen[p]
        /\ frame[p].raised
        /\ ~NonDecreasing(timestamps[p])

====
